---- MODULE Spec2Model ----
(***************************************************************************)
(* Hand-Magic: the single-hand gesture classifier (utils/gestureLogic.ts)  *)
(* and the per-frame loop of components/HandParticlesScene.tsx (predict,   *)
(* which classifies the frame's poses, runs the double-palm detector and   *)
(* then calls animate, the particle step).                                 *)
(*                                                                         *)
(* Numbers.  The program computes in IEEE doubles; the model computes in   *)
(* fixed point:                                                            *)
(*   - landmark coordinates in units of 1/10000 of the normalised frame,   *)
(*     so the pinch threshold 0.05 is 500;                                 *)
(*   - gesture strength in units of 1/10000, so strength 1 is 10000;       *)
(*   - timestamps (performance.now()) in whole milliseconds;               *)
(*   - world coordinates and velocities in units of 1/10, colours in       *)
(*     units of 1/100, dt in milliseconds.                                 *)
(* Math.sqrt is the floor square root ISqrt.  A comparison of a distance   *)
(* with an integer threshold, and of two distances with each other, is     *)
(* made on the squares, which is exact because sqrt is strictly monotone.  *)
(***************************************************************************)
EXTENDS Integers, Sequences, FiniteSets, TLC

VARIABLES
    landmarks,      \* gesture specification: the pose handed to detectGesture
    result,         \* gesture specification: what detectGesture returned, or NoResult
    clock,          \* performance.now() at the last tick, in ms
    ticks,          \* number of ticks run so far
    isHandPresent,  \* sceneState.isHandPresent
    gesture,        \* sceneState.gesture
    gestureStrength,\* sceneState.gestureStrength
    handPosition,   \* sceneState.handPosition
    doublePalmTimer,\* sceneState.doublePalmTimer (0 is "unset")
    time,           \* sceneState.time, in ms
    lastTime,       \* loopState.lastTime
    positions,      \* sceneState.positions, one vec3 per particle
    velocities,     \* sceneState.velocities
    homePositions,  \* sceneState.homePositions
    colors,         \* sceneState.colors
    last,           \* what the last tick was given and did (history)
    steady,         \* environment: from now on every frame shows two open hands
    mounted,        \* the component is mounted: the effect cleanup has not run
    domRefs,        \* videoRef.current and containerRef.current are the elements
    mediaPipe,      \* runs of setupMediaPipe that are awaiting the landmarker
    landmarker,     \* landmarkerRef.current is set
    gum,            \* calls of startCamera awaiting getUserMedia, by captured isLoading
    onloadeddata,   \* video.onloadeddata: "null", or the isLoading its closure captured
    streamLoading,  \* the video's srcObject has a loadeddata event to come
    enumerating,    \* loadeddata handlers awaiting enumerateDevices, by captured isLoading
    hasEnumeratedDevices, \* hasEnumeratedDevices.current
    isLoading,      \* the isLoading state of the latest render
    isStreamReady,  \* sceneState.isStreamReady
    renderer,       \* threeRef.current.renderer is not null
    rafPending,     \* number of requested animation frames of predict not yet run
    requestRefLive, \* requestRef.current names one of them
    oddFrame        \* predict has run an odd number of times (history)

lifeVars == <<mounted, domRefs, mediaPipe, landmarker, gum, onloadeddata, streamLoading,
              enumerating, hasEnumeratedDevices, isLoading, isStreamReady, renderer,
              rafPending, requestRefLive, oddFrame>>

vars == <<landmarks, result, clock, ticks, isHandPresent, gesture, gestureStrength,
          handPosition, doublePalmTimer, time, lastTime, positions, velocities,
          homePositions, colors, last, steady, lifeVars>>

----------------------------------------------------------------------------
(* types.ts: GestureType *)

NONE == "NONE"
OPEN_HAND == "OPEN_HAND"
CLOSED_FIST == "CLOSED_FIST"
VICTORY == "VICTORY"
PINCH == "PINCH"
THUMBS_UP == "THUMBS_UP"
ROCK_ON == "ROCK_ON"
DOUBLE_PALM == "DOUBLE_PALM"

GestureType ==
    {NONE, OPEN_HAND, CLOSED_FIST, VICTORY, PINCH, THUMBS_UP, ROCK_ON, DOUBLE_PALM}

----------------------------------------------------------------------------
(* utils/gestureLogic.ts *)

\* A full pose has 21 landmarks.
NumLandmarks == 21
\* 0.05, the pinch distance, in units of 1/10000.
PinchThreshold == 500
\* Strength 1, in units of 1/10000.
One == 10000
\* The factor 20 of 1 - pinchDist * 20.
PinchSlope == 20

\* landmarks[k] of the 0-based JavaScript array.
At(lm, k) == lm[k + 1]

Sq(a) == a * a

Max(a, b) == IF a >= b THEN a ELSE b
Min(a, b) == IF a <= b THEN a ELSE b

\* Floor square root, by bisection on [lo, hi].
RECURSIVE ISqrtIn(_, _, _)
ISqrtIn(n, lo, hi) ==
    IF lo >= hi THEN lo
    ELSE LET mid == (lo + hi + 1) \div 2
         IN  IF mid * mid <= n THEN ISqrtIn(n, mid, hi) ELSE ISqrtIn(n, lo, mid - 1)

\* The model's integers are 32-bit, so the root is at most 46340.
ISqrt(n) == ISqrtIn(n, 0, Min(n, 46340))

\* The sum under the root of distance(p1, p2).
distanceSq(p1, p2) ==
    Sq(p1[1] - p2[1]) + Sq(p1[2] - p2[2]) + Sq(p1[3] - p2[3])

distance(p1, p2) == ISqrt(distanceSq(p1, p2))

isFingerExtended(lm, tipIdx, pipIdx) ==
    LET wrist == At(lm, 0)
        tip == At(lm, tipIdx)
        pip == At(lm, pipIdx)
    IN  distanceSq(wrist, tip) > distanceSq(wrist, pip)

\* Mutant: the pinch comparison made inclusive (pinchDist <= 0.05).
isPinch_inclusive(lm) == distanceSq(At(lm, 4), At(lm, 8)) <= Sq(PinchThreshold)

\* pinchDist < 0.05
isPinch(lm) == distanceSq(At(lm, 4), At(lm, 8)) < Sq(PinchThreshold)

\* Math.max(0, 1 - pinchDist * 20)
pinchStrength(lm) == Max(0, One - distance(At(lm, 4), At(lm, 8)) * PinchSlope)

Count(bools) == Cardinality({i \in DOMAIN bools : bools[i]})

\* Mutant: OPEN_HAND from three extended digits on, and tested before THUMBS_UP.
classifyFingers_openAtThree(thumbExt, indexExt, middleExt, ringExt, pinkyExt) ==
    LET extendedCount == Count(<<thumbExt, indexExt, middleExt, ringExt, pinkyExt>>)
    IN  IF extendedCount = 0
          THEN [type |-> CLOSED_FIST, strength |-> One]
        ELSE IF indexExt /\ pinkyExt /\ ~middleExt /\ ~ringExt
          THEN [type |-> ROCK_ON, strength |-> One]
        ELSE IF indexExt /\ middleExt /\ ~ringExt /\ ~pinkyExt
          THEN [type |-> VICTORY, strength |-> One]
        ELSE IF extendedCount >= 3
          THEN [type |-> OPEN_HAND, strength |-> One]
        ELSE IF thumbExt /\ ~indexExt /\ ~middleExt /\ ~ringExt /\ ~pinkyExt
          THEN [type |-> THUMBS_UP, strength |-> One]
        ELSE [type |-> NONE, strength |-> 0]

\* The rules after the pinch check, on the five extension booleans.
classifyFingers(thumbExt, indexExt, middleExt, ringExt, pinkyExt) ==
    LET extendedCount == Count(<<thumbExt, indexExt, middleExt, ringExt, pinkyExt>>)
    IN  IF extendedCount = 0
          THEN [type |-> CLOSED_FIST, strength |-> One]
        ELSE IF indexExt /\ pinkyExt /\ ~middleExt /\ ~ringExt
          THEN [type |-> ROCK_ON, strength |-> One]
        ELSE IF indexExt /\ middleExt /\ ~ringExt /\ ~pinkyExt
          THEN [type |-> VICTORY, strength |-> One]
        ELSE IF thumbExt /\ ~indexExt /\ ~middleExt /\ ~ringExt /\ ~pinkyExt
          THEN [type |-> THUMBS_UP, strength |-> One]
        ELSE IF extendedCount >= 4
          THEN [type |-> OPEN_HAND, strength |-> One]
        ELSE [type |-> NONE, strength |-> 0]

\* Mutant: the finger rules come first and the pinch check only when they say NONE.
detectGesture_pinchLast(lm) ==
    IF Len(lm) < NumLandmarks
      THEN [type |-> NONE, strength |-> 0]
    ELSE LET byFingers == classifyFingers(isFingerExtended(lm, 4, 2),
                                          isFingerExtended(lm, 8, 6),
                                          isFingerExtended(lm, 12, 10),
                                          isFingerExtended(lm, 16, 14),
                                          isFingerExtended(lm, 20, 18))
         IN  IF byFingers.type # NONE THEN byFingers
             ELSE IF isPinch(lm) THEN [type |-> PINCH, strength |-> pinchStrength(lm)]
             ELSE byFingers

detectGesture(lm) ==
    IF Len(lm) < NumLandmarks
      THEN [type |-> NONE, strength |-> 0]
    ELSE IF isPinch(lm)
      THEN [type |-> PINCH, strength |-> pinchStrength(lm)]
    ELSE classifyFingers(isFingerExtended(lm, 4, 2),
                         isFingerExtended(lm, 8, 6),
                         isFingerExtended(lm, 12, 10),
                         isFingerExtended(lm, 16, 14),
                         isFingerExtended(lm, 20, 18))

----------------------------------------------------------------------------
(* Poses.  detectGesture reads landmarks 0 (wrist), 2 and 4 (thumb MCP and  *)
(* tip), 6 and 8 (index PIP and tip), 10 and 12, 14 and 16, 18 and 20;      *)
(* predict reads landmark 9.  A pose is built from the five tips and        *)
(* landmark 9; the wrist and the proximal joints are fixed and the          *)
(* landmarks nothing reads sit on the wrist.                                *)

Wrist == <<5000, 9000, 0>>
ThumbMcp == <<4500, 8500, 0>>
IndexPip == <<4800, 7500, 0>>
MiddlePip == <<5000, 7400, 0>>
RingPip == <<5200, 7500, 0>>
PinkyPip == <<5400, 7800, 0>>

ThumbOut == <<4000, 8000, 0>>
ThumbIn == <<4800, 8800, 0>>
ThumbUp == <<4800, 6800, 0>>
IndexOut == <<4800, 6500, 0>>
IndexIn == <<4900, 8300, 0>>
MiddleOut == <<5000, 6300, 0>>
MiddleIn == <<5000, 8400, 0>>
RingOut == <<5250, 6500, 0>>
RingIn == <<5100, 8500, 0>>
PinkyOut == <<5500, 7000, 100>>
PinkyIn == <<5300, 8600, 0>>

Offset(p, d) == <<p[1] + d[1], p[2] + d[2], p[3] + d[3]>>

ThumbTips == {ThumbOut, ThumbIn, ThumbUp}
\* The index tip: out, in, or at distance 0, 250, 499, 500 (two ways), 501 of ThumbOut.
IndexTips ==
    {IndexOut, IndexIn} \cup
    {Offset(ThumbOut, d) : d \in {<<0, 0, 0>>, <<0, 0, 250>>, <<499, 0, 0>>,
                                  <<500, 0, 0>>, <<300, 400, 0>>, <<501, 0, 0>>}}
MiddleTips == {MiddleOut, MiddleIn}
RingTips == {RingOut, RingIn}
\* The pinky tip: out, in, or exactly as far from the wrist as its PIP joint.
PinkyTips == {PinkyOut, PinkyIn, PinkyPip}

Centre == <<5000, 5000, 0>>

MkPose(tt, it, mt, rt, pt, j9) ==
    <<Wrist, Wrist, ThumbMcp, Wrist, tt,
      Wrist, IndexPip, Wrist, it,
      j9, MiddlePip, Wrist, mt,
      Wrist, RingPip, Wrist, rt,
      Wrist, PinkyPip, Wrist, pt>>

FullPoses ==
    {MkPose(tt, it, mt, rt, pt, Centre) :
        tt \in ThumbTips, it \in IndexTips, mt \in MiddleTips,
        rt \in RingTips, pt \in PinkyTips}

\* Incomplete detections: the first n landmarks of a pose.
Truncate(lm, n) == SubSeq(lm, 1, n)
ShortLens == {0, 5, 9, 10, 20}

OpenPose == MkPose(ThumbOut, IndexOut, MiddleOut, RingOut, PinkyOut, Centre)
FistPose == MkPose(ThumbIn, IndexIn, MiddleIn, RingIn, PinkyIn, Centre)
VictoryPose == MkPose(ThumbIn, IndexOut, MiddleOut, RingIn, PinkyIn, Centre)
ThumbsUpPose == MkPose(ThumbOut, IndexIn, MiddleIn, RingIn, PinkyIn, Centre)
RockOnPose == MkPose(ThumbIn, IndexOut, MiddleIn, RingIn, PinkyOut, Centre)
NonePose == MkPose(ThumbIn, IndexOut, MiddleIn, RingIn, PinkyIn, Centre)
PinchPose == MkPose(ThumbOut, ThumbOut, MiddleOut, RingOut, PinkyOut, Centre)
HalfPinchPose ==
    MkPose(ThumbOut, Offset(ThumbOut, <<0, 0, 250>>), MiddleIn, RingIn, PinkyIn, Centre)

GesturePoses ==
    FullPoses \cup {Truncate(OpenPose, n) : n \in ShortLens}
              \cup {Truncate(PinchPose, n) : n \in ShortLens}

NoResult == [type |-> "NoResult", strength |-> 0]

----------------------------------------------------------------------------
(* components/HandParticlesScene.tsx: configuration and construction *)

\* PARTICLE_COUNT is 25000; the model runs NumParticles of them.
NumParticles == 1
BOUNDS == 80

\* performance.now() when the loop starts: the page has been loading since
\* the time origin, so it is positive.
StartClock == 1

Particles == 1 .. NumParticles

\* Not-a-number, the result of 0 / 0.
NaN == -1000000007

\* Math.random() in initThree: the seeded positions (inside the sphere of
\* radius BOUNDS, in units of 1/10) and the colour mix, one sample per seed.
HomeTable ==
    <<<<500, 0, 0>>, <<0, 0, 0>>, <<-300, 200, 100>>, <<100, 0, 0>>>>
AlphaTable == <<0, 100, 50, 25>>
Seeds == {0, 1}

Pick(table, k) == table[(k % Len(table)) + 1]

\* color1.clone().lerp(color2, alpha) with color1 = 0x00ffff, color2 = 0xff00ff
MixedColor(alpha) == <<alpha, 100 - alpha, 100>>

Zero3 == <<0, 0, 0>>

NoTick ==
    [kind |-> "none", hands |-> <<>>, now |-> 0, timerBefore |-> 0, trigger |-> 0,
     caught |-> FALSE, notified |-> FALSE, dt |-> 0,
     animPresent |-> FALSE, animGesture |-> NONE, animStrength |-> 0,
     animHand |-> Zero3, prePositions |-> <<>>, preColors |-> <<>>,
     preVelocities |-> <<>>]

\* sceneState and loopState as constructed, and the buffers initThree fills.
SceneInit(seed) ==
    /\ clock = StartClock
    /\ ticks = 0
    /\ isHandPresent = FALSE
    /\ gesture = NONE
    /\ gestureStrength = 0
    /\ handPosition = Zero3
    /\ doublePalmTimer = 0
    /\ time = 0
    /\ lastTime = StartClock
    /\ homePositions = [i \in Particles |-> Pick(HomeTable, seed + i - 1)]
    /\ positions = [i \in Particles |-> Pick(HomeTable, seed + i - 1)]
    /\ velocities = [i \in Particles |-> Zero3]
    /\ colors = [i \in Particles |-> MixedColor(Pick(AlphaTable, seed + i - 1))]
    /\ last = NoTick

sceneVars == <<clock, ticks, isHandPresent, gesture, gestureStrength, handPosition,
               doublePalmTimer, time, lastTime, positions, velocities,
               homePositions, colors, last>>

\* Captured values of isLoading, as the keys of gum and enumerating.
NoCalls == [cap \in BOOLEAN |-> 0]

\* The component once its loop runs: the landmarker is loaded, the camera
\* stream has fired loadeddata, whose handler (lines 454-479) has enumerated
\* the devices, cleared isLoading, run initThree and called predict, which has
\* requested its next frame.
LoopRunning ==
    /\ steady = FALSE
    /\ mounted = TRUE
    /\ domRefs = TRUE
    /\ mediaPipe = 0
    /\ landmarker = TRUE
    /\ gum = NoCalls
    /\ onloadeddata = "true"
    /\ streamLoading = FALSE
    /\ enumerating = NoCalls
    /\ hasEnumeratedDevices = TRUE
    /\ isLoading = FALSE
    /\ isStreamReady = TRUE
    /\ renderer = TRUE
    /\ rafPending = 1
    /\ requestRefLive = TRUE
    /\ oddFrame = FALSE

----------------------------------------------------------------------------
(* Arithmetic of the particle step.  A number is an integer or NaN; every   *)
(* operation on NaN gives NaN and every comparison with NaN is false.       *)

\* Integer division rounding toward zero.
Div(a, b) == IF a >= 0 THEN a \div b ELSE -((-a) \div b)

NAdd(a, b) == IF a = NaN \/ b = NaN THEN NaN ELSE a + b
NSub(a, b) == IF a = NaN \/ b = NaN THEN NaN ELSE a - b
\* a * num / den
NScale(a, num, den) == IF a = NaN THEN NaN ELSE Div(a * num, den)
\* a / b of two numbers, scaled by num / den: 0 / 0 is NaN.
NRatio(a, b, num, den) ==
    IF a = NaN \/ b = NaN THEN NaN
    ELSE IF b = 0 THEN NaN
    ELSE Div(a * num, b * den)
NLt(a, b) == a # NaN /\ b # NaN /\ a < b

VAdd(u, w) == <<NAdd(u[1], w[1]), NAdd(u[2], w[2]), NAdd(u[3], w[3])>>
VSub(u, w) == <<NSub(u[1], w[1]), NSub(u[2], w[2]), NSub(u[3], w[3])>>
VScale(u, num, den) == <<NScale(u[1], num, den), NScale(u[2], num, den), NScale(u[3], num, den)>>

\* Math.sqrt(dx * dx + dy * dy + dz * dz)
Norm(d) ==
    IF d[1] = NaN \/ d[2] = NaN \/ d[3] = NaN THEN NaN
    ELSE ISqrt(Sq(d[1]) + Sq(d[2]) + Sq(d[3]))

----------------------------------------------------------------------------
(* animate: the step of one particle.                                       *)
(* Math.sin, Math.cos and Math.random are samples: orc.s5 stands for        *)
(* sin(time * 5 + i), orc.s10 for sin(px * 0.2 + time * 10), orc.lsin and   *)
(* orc.lcos for the sine and cosine of time * 3 + i * 0.1 (units of 1/100), *)
(* orc.rx, orc.ry, orc.rz, orc.rc for the four Math.random() calls (units   *)
(* of 1/100).                                                               *)

OracleTable ==
    <<[s5 |-> 100, s10 |-> -100, lsin |-> 0, lcos |-> 100,
       rx |-> 0, ry |-> 50, rz |-> 99, rc |-> 50],
      [s5 |-> 0, s10 |-> 100, lsin |-> 100, lcos |-> 0,
       rx |-> 99, ry |-> 0, rz |-> 50, rc |-> 4],
      [s5 |-> -100, s10 |-> 0, lsin |-> -60, lcos |-> -80,
       rx |-> 50, ry |-> 99, rz |-> 0, rc |-> 5]>>
Oracles == {0, 1}

\* Lines 137-207: what the gesture adds to the velocity of a particle at
\* offset d = (dx, dy, dz) and distance dist from the hand.
GestureForce(i, g, gs, p, hand, d, dist, dt, orc) ==
    IF g = OPEN_HAND THEN
        IF NLt(dist, 400) THEN
            LET force == Div((400 - dist) * 15, 10)
            IN  <<-Div(d[2] * force * dt, 20000) - Div(d[1] * 2 * dt, 1000),
                  Div(d[1] * force * dt, 20000) - Div(d[2] * 2 * dt, 1000),
                  Div(orc.s5 * force * dt, 100000) - Div(d[3] * 2 * dt, 1000)>>
        ELSE Zero3
    ELSE IF g = CLOSED_FIST THEN
        IF NLt(dist, 500) THEN
            LET force == (500 - dist) * 20
            IN  <<NRatio(d[1] * force * dt, dist, 1, 1000),
                  NRatio(d[2] * force * dt, dist, 1, 1000),
                  NRatio(d[3] * force * dt, dist, 1, 1000)>>
        ELSE Zero3
    ELSE IF g = PINCH THEN
        IF NLt(dist, 600) THEN
            <<-Div(Div(d[1] * 150 * dt, 1000) * gs, 10000),
              -Div(Div(d[2] * 150 * dt, 1000) * gs, 10000),
              -Div(Div(d[3] * 150 * dt, 1000) * gs, 10000)>>
        ELSE Zero3
    ELSE IF g = VICTORY THEN
        IF NLt(dist, 400) THEN <<0, Div(orc.s10 * 2 * dt, 1000), 0>> ELSE Zero3
    ELSE IF g = THUMBS_UP THEN
        IF NLt(dist, 400) THEN
            LET tx == orc.lsin * 2
                ty == orc.lcos * 2
            IN  <<Div((hand[1] + tx - p[1]) * 5 * dt, 1000),
                  Div((hand[2] + ty - p[2]) * 5 * dt, 1000),
                  0>>
        ELSE Zero3
    ELSE IF g = ROCK_ON THEN
        IF NLt(dist, 600) THEN
            <<Div((orc.rx - 50) * 20 * dt, 1000),
              Div((orc.ry - 50) * 20 * dt, 1000),
              Div((orc.rz - 50) * 20 * dt, 1000)>>
        ELSE Zero3
    ELSE
        IF NLt(dist, 150) THEN
            LET force == (150 - dist) * 10
            IN  <<NRatio(d[1] * force * dt, dist, 1, 1000),
                  NRatio(d[2] * force * dt, dist, 1, 1000),
                  NRatio(d[3] * force * dt, dist, 1, 1000)>>
        ELSE Zero3

\* hue2rgb of THREE.Color.setHSL with p = 0.28, q = 0.92 (s = 0.8, l = 0.6);
\* t in units of 1/1000.
Hue2Rgb(t0) ==
    LET t == t0 % 1000
    IN  IF t * 6 < 1000 THEN 28 + Div(64 * 6 * t, 1000)
        ELSE IF t * 2 < 1000 THEN 92
        ELSE IF t * 3 < 2000 THEN 28 + Div(64 * (4000 - 6 * t), 1000)
        ELSE 28

\* new THREE.Color().setHSL((time * 0.2 + px * 0.01) % 1, 0.8, 0.6)
RainbowColor(t, px) ==
    IF px = NaN THEN <<28, 28, 28>>
    ELSE LET hue == Div(t, 5) + px
         IN  <<Hue2Rgb(hue + 333), Hue2Rgb(hue), Hue2Rgb(hue + 667)>>

\* Math.min(1, 40 / (dist + 1)) and the red-orange heat it gives.
PinchColor(dist) ==
    IF dist = NaN THEN <<100, NaN, NaN>>
    ELSE LET intensity == Min(100, Div(40000, dist + 10))
         IN  <<100, 100 - intensity, 100 - intensity>>

\* Lines 209-230: the colour of a particle after the colour branch.
ColorUpdate(g, c, home, t, px, dist, orc) ==
    IF g = VICTORY THEN RainbowColor(t, px)
    ELSE IF g = PINCH THEN PinchColor(dist)
    ELSE IF orc.rc < 5 THEN <<IF home[1] > 0 THEN 0 ELSE 100, 80, 100>>
    ELSE c

\* Mutant: the colour branch runs on the position the integration has written.
StepParticle_colorAfterIntegration(i, p, v, home, c, present, g, gs, hand, t, dt, orc) ==
    LET vHome == VAdd(v, VScale(VSub(home, p), 15 * dt, 10000))
        d == VSub(p, hand)
        dist == Norm(d)
        vHand == IF present
                   THEN VAdd(vHome, GestureForce(i, g, gs, p, hand, d, dist, dt, orc))
                   ELSE vHome
        vNew == VScale(vHand, 92, 100)
        pNew == VAdd(p, VScale(vNew, dt, 1000))
        cNew == IF present
                  THEN ColorUpdate(g, c, home, t, pNew[1], Norm(VSub(pNew, hand)), orc)
                  ELSE c
    IN  [p |-> pNew, v |-> vNew, c |-> cNew]

\* Mutant: the gesture force and the colour update run without a hand too.
StepParticle_ignorePresence(i, p, v, home, c, present, g, gs, hand, t, dt, orc) ==
    LET vHome == VAdd(v, VScale(VSub(home, p), 15 * dt, 10000))
        d == VSub(p, hand)
        dist == Norm(d)
        vHand == VAdd(vHome, GestureForce(i, g, gs, p, hand, d, dist, dt, orc))
        cNew == ColorUpdate(g, c, home, t, p[1], dist, orc)
        vNew == VScale(vHand, 92, 100)
        pNew == VAdd(p, VScale(vNew, dt, 1000))
    IN  [p |-> pNew, v |-> vNew, c |-> cNew]

\* Lines 105-245, the body of the loop for particle i: home force, then (hand
\* present) gesture force and colour, then friction, then integration.
StepParticle(i, p, v, home, c, present, g, gs, hand, t, dt, orc) ==
    LET vHome == VAdd(v, VScale(VSub(home, p), 15 * dt, 10000))
        d == VSub(p, hand)
        dist == Norm(d)
        vHand == IF present
                   THEN VAdd(vHome, GestureForce(i, g, gs, p, hand, d, dist, dt, orc))
                   ELSE vHome
        cNew == IF present THEN ColorUpdate(g, c, home, t, p[1], dist, orc) ELSE c
        vNew == VScale(vHand, 92, 100)
        pNew == VAdd(p, VScale(vNew, dt, 1000))
    IN  [p |-> pNew, v |-> vNew, c |-> cNew]

----------------------------------------------------------------------------
(* predict: detection, classification and the double-palm detector. *)

\* The double-palm window, in ms.
PalmWindow == 1000

\* Mutant: the timer is left set when the trigger fires.
DoublePalm_noReset(timer, g1, g2, now) ==
    IF g1.type = OPEN_HAND /\ g2.type = OPEN_HAND THEN
        IF now - timer < PalmWindow /\ timer > 0 THEN [timer |-> timer, trigger |-> 1]
        ELSE IF timer = 0 THEN [timer |-> now, trigger |-> 0]
        ELSE [timer |-> timer, trigger |-> 0]
    ELSE
        IF now - timer > PalmWindow THEN [timer |-> 0, trigger |-> 0]
        ELSE [timer |-> timer, trigger |-> 0]

\* Lines 301-318: the timer after the tick and the number of fullscreen toggles.
DoublePalm(timer, g1, g2, now) ==
    IF g1.type = OPEN_HAND /\ g2.type = OPEN_HAND THEN
        IF now - timer < PalmWindow /\ timer > 0 THEN [timer |-> 0, trigger |-> 1]
        ELSE IF timer = 0 THEN [timer |-> now, trigger |-> 0]
        ELSE [timer |-> timer, trigger |-> 0]
    ELSE
        IF now - timer > PalmWindow THEN [timer |-> 0, trigger |-> 0]
        ELSE [timer |-> timer, trigger |-> 0]

\* Lines 282-287: landmark 9 mapped to world space.
TargetPos(lm) ==
    LET l9 == At(lm, 9)
    IN  <<Div((5000 - l9[1]) * BOUNDS * 25, 10000),
          Div((5000 - l9[2]) * BOUNDS * 25, 10000),
          Div(-l9[3] * BOUNDS * 2, 1000)>>

\* handPosition.lerp(targetPos, 0.2)
Lerp(h, target) == VAdd(h, VScale(VSub(target, h), 2, 10))

\* The scene state a frame leaves behind, before animate runs.  A frame is
\*   novideo: the guard of line 270 is false, nothing is detected or notified;
\*   throw:   detectForVideo raises, the catch of line 325 swallows it;
\*   hands:   detectForVideo returns the poses of 0, 1 or 2 hands.
\* caught: an exception reached the catch.  landmarks[9] of a pose of fewer
\* than 10 landmarks is undefined, and reading its x raises a TypeError after
\* line 275 has set isHandPresent.
Detect(frame, now) ==
    LET same == [present |-> isHandPresent, gesture |-> gesture,
                 strength |-> gestureStrength, hand |-> handPosition,
                 timer |-> doublePalmTimer, trigger |-> 0,
                 caught |-> FALSE, notified |-> TRUE]
    IN  IF frame.kind = "novideo" THEN [same EXCEPT !.notified = FALSE]
        ELSE IF frame.kind = "throw" THEN [same EXCEPT !.caught = TRUE]
        ELSE IF Len(frame.hands) = 0
          THEN [same EXCEPT !.present = FALSE, !.gesture = NONE]
        ELSE LET lm == frame.hands[1]
             IN  IF Len(lm) < 10
                   THEN [same EXCEPT !.present = TRUE, !.caught = TRUE]
                 ELSE LET g == detectGesture(lm)
                          dp == IF Len(frame.hands) = 2
                                  THEN DoublePalm(doublePalmTimer,
                                                  detectGesture(frame.hands[1]),
                                                  detectGesture(frame.hands[2]), now)
                                  ELSE [timer |-> doublePalmTimer, trigger |-> 0]
                      IN  [same EXCEPT !.present = TRUE,
                                       !.hand = Lerp(handPosition, TargetPos(lm)),
                                       !.gesture = g.type,
                                       !.strength = g.strength,
                                       !.timer = dp.timer,
                                       !.trigger = dp.trigger]

\* What the guard of line 270 and detectForVideo give predict in one frame.
NoVideo == [kind |-> "novideo", hands |-> <<>>]
Throw == [kind |-> "throw", hands |-> <<>>]
Hands(h) == [kind |-> "hands", hands |-> h]

\* Mutant: a tick re-anchors every particle where the step left it.
PredictOn_writesHome(ren, pos, vel, home, col, frame, delta, o) ==
    LET now == clock + delta
        seen == IF domRefs /\ landmarker /\ isStreamReady THEN frame ELSE NoVideo
        det == Detect(seen, now)
        dt == IF ren THEN Min(now - lastTime, 100) ELSE 0
        t == time + dt
        step == [i \in Particles |->
                    StepParticle(i, pos[i], vel[i], home[i], col[i],
                                 det.present, det.gesture, det.strength,
                                 det.hand, t, dt, Pick(OracleTable, o + i - 1))]
    IN  /\ clock' = now
        /\ isHandPresent' = det.present
        /\ gesture' = det.gesture
        /\ gestureStrength' = det.strength
        /\ handPosition' = det.hand
        /\ doublePalmTimer' = det.timer
        /\ IF ren
             THEN /\ lastTime' = now
                  /\ time' = t
                  /\ positions' = [i \in Particles |-> step[i].p]
                  /\ velocities' = [i \in Particles |-> step[i].v]
                  /\ colors' = [i \in Particles |-> step[i].c]
             ELSE /\ UNCHANGED <<lastTime, time>>
                  /\ positions' = pos
                  /\ velocities' = vel
                  /\ colors' = col
        /\ homePositions' = IF ren THEN [i \in Particles |-> step[i].p] ELSE home
        /\ last' = [kind |-> seen.kind, hands |-> seen.hands, now |-> now,
                    timerBefore |-> doublePalmTimer, trigger |-> det.trigger,
                    caught |-> det.caught, notified |-> det.notified, dt |-> dt,
                    animPresent |-> ren /\ det.present,
                    animGesture |-> det.gesture,
                    animStrength |-> det.strength, animHand |-> det.hand,
                    prePositions |-> pos, preColors |-> col,
                    preVelocities |-> vel]
        /\ UNCHANGED <<landmarks, result>>

\* The body of predict up to its call of animate, and animate, on the
\* renderer and buffers initThree has left (ren, pos, vel, home, col): the
\* detection above where the guard of line 270 lets it run, then, where the
\* renderer exists (line 74), the step of every particle (lines 76-78, 88
\* and 105-245), with the clock delta ms after the last tick.
PredictOn(ren, pos, vel, home, col, frame, delta, o) ==
    LET now == clock + delta
        seen == IF domRefs /\ landmarker /\ isStreamReady THEN frame ELSE NoVideo
        det == Detect(seen, now)
        dt == IF ren THEN Min(now - lastTime, 100) ELSE 0
        t == time + dt
        step == [i \in Particles |->
                    StepParticle(i, pos[i], vel[i], home[i], col[i],
                                 det.present, det.gesture, det.strength,
                                 det.hand, t, dt, Pick(OracleTable, o + i - 1))]
    IN  /\ clock' = now
        /\ isHandPresent' = det.present
        /\ gesture' = det.gesture
        /\ gestureStrength' = det.strength
        /\ handPosition' = det.hand
        /\ doublePalmTimer' = det.timer
        /\ IF ren
             THEN /\ lastTime' = now
                  /\ time' = t
                  /\ positions' = [i \in Particles |-> step[i].p]
                  /\ velocities' = [i \in Particles |-> step[i].v]
                  /\ colors' = [i \in Particles |-> step[i].c]
             ELSE /\ UNCHANGED <<lastTime, time>>
                  /\ positions' = pos
                  /\ velocities' = vel
                  /\ colors' = col
        /\ homePositions' = home
        /\ last' = [kind |-> seen.kind, hands |-> seen.hands, now |-> now,
                    timerBefore |-> doublePalmTimer, trigger |-> det.trigger,
                    caught |-> det.caught, notified |-> det.notified, dt |-> dt,
                    animPresent |-> ren /\ det.present,
                    animGesture |-> det.gesture,
                    animStrength |-> det.strength, animHand |-> det.hand,
                    prePositions |-> pos, preColors |-> col,
                    preVelocities |-> vel]
        /\ UNCHANGED <<landmarks, result>>

\* One call of predict, on the renderer and buffers of the scene.
Predict(frame, delta, o) ==
    PredictOn(renderer, positions, velocities, homePositions, colors, frame, delta, o)

\* predict as a callback of requestAnimationFrame: the frame that ran is no
\* longer pending, and line 335 requests the next and stores its id.
RunFrame(frame, delta, o) ==
    /\ rafPending > 0
    /\ Predict(frame, delta, o)
    /\ rafPending' = rafPending
    /\ requestRefLive' = TRUE
    /\ oddFrame' = ~oddFrame
    /\ UNCHANGED <<mounted, domRefs, mediaPipe, landmarker, gum, onloadeddata,
                   streamLoading, enumerating, hasEnumeratedDevices, isLoading,
                   isStreamReady, renderer>>

----------------------------------------------------------------------------
(* The frame loop on frames of every kind. *)

MaxTicks == 2

OneHandPoses ==
    {OpenPose, FistPose, VictoryPose, ThumbsUpPose, RockOnPose, NonePose, HalfPinchPose,
     Truncate(OpenPose, 0), Truncate(OpenPose, 9),
     Truncate(OpenPose, 10), Truncate(OpenPose, 20)}

Frames ==
    {NoVideo, Throw, Hands(<<>>)}
        \cup {Hands(<<lm>>) : lm \in OneHandPoses}

\* Milliseconds between two frames: a display refresh, or a hitch.
Deltas == {16, 250}

Init ==
    /\ landmarks = <<>>
    /\ result = NoResult
    /\ \E seed \in Seeds : SceneInit(seed)
    /\ LoopRunning

Tick ==
    /\ ticks < MaxTicks
    /\ ticks' = ticks + 1
    /\ \E frame \in Frames, delta \in Deltas, o \in Oracles : RunFrame(frame, delta, o)
    /\ UNCHANGED steady

Next == Tick

Spec == Init /\ [][Next]_vars

----------------------------------------------------------------------------
(* The frame loop on the frames the double-palm detector tells apart. *)

MaxPalmTicks == 3

PalmFrames ==
    {Throw, Hands(<<>>), Hands(<<OpenPose>>),
     Hands(<<OpenPose, OpenPose>>), Hands(<<OpenPose, FistPose>>),
     Hands(<<NonePose, OpenPose>>),
     Hands(<<Truncate(OpenPose, 5), OpenPose>>),
     Hands(<<OpenPose, Truncate(OpenPose, 20)>>)}

PalmDeltas == {500, 1001}

PalmInit ==
    /\ landmarks = <<>>
    /\ result = NoResult
    /\ SceneInit(0)
    /\ LoopRunning

PalmTick ==
    /\ ticks < MaxPalmTicks
    /\ ticks' = ticks + 1
    /\ \E frame \in PalmFrames, delta \in PalmDeltas : RunFrame(frame, delta, 0)
    /\ UNCHANGED steady

PalmNext == PalmTick

SpecPalm == PalmInit /\ [][PalmNext]_vars

----------------------------------------------------------------------------
(* The frame loop with the hand mostly away: frames without a hand, one frame *)
(* with a fist, and frame times from the same millisecond to a long hitch.   *)

MaxIdleTicks == 3

IdleFrames == {NoVideo, Throw, Hands(<<>>), Hands(<<FistPose>>)}

\* Milliseconds between two frames: none (two calls in one clock reading), a
\* display refresh, the cap of line 77 exactly, or a hitch.
IdleDeltas == {0, 16, 100, 250}

IdleInit ==
    /\ landmarks = <<>>
    /\ result = NoResult
    /\ \E seed \in Seeds : SceneInit(seed)
    /\ LoopRunning

IdleTick ==
    /\ ticks < MaxIdleTicks
    /\ ticks' = ticks + 1
    /\ \E frame \in IdleFrames, delta \in IdleDeltas, o \in Oracles :
          RunFrame(frame, delta, o)
    /\ UNCHANGED steady

IdleNext == IdleTick

SpecIdle == IdleInit /\ [][IdleNext]_vars

----------------------------------------------------------------------------
(* The double-palm detector under hands that come to stay: some frames of    *)
(* any kind, and then two open hands in every frame, forever.  The loop      *)
(* runs a frame whenever one is requested, which predict always does.        *)

MaxFreeTicks == 2

\* The clock is read up to MaxClock; frames after that read the same value.
MaxClock == 4000

\* Milliseconds between two frames with the hands held: less than 1000.
SteadyDeltas == {0, 500}

FreeTick ==
    /\ ~steady
    /\ ticks < MaxFreeTicks
    /\ ticks' = ticks + 1
    /\ \E frame \in PalmFrames, delta \in PalmDeltas : RunFrame(frame, delta, 0)
    /\ UNCHANGED steady

SteadyTick ==
    /\ \E delta \in SteadyDeltas :
          /\ clock + delta <= MaxClock
          /\ RunFrame(Hands(<<OpenPose, OpenPose>>), delta, 0)
    /\ steady' = TRUE
    /\ UNCHANGED ticks

SteadyNext == FreeTick \/ SteadyTick

\* A requested frame is run: the browser calls predict back, here with the
\* hands held.  Of the steps of SteadyNext these are the steps of SteadyTick,
\* which is enabled whenever a frame is requested.
HeldFrame == rafPending > 0 /\ steady' = TRUE /\ oddFrame' = ~oddFrame

SpecSteady ==
    PalmInit /\ [][SteadyNext]_vars /\ WF_<<steady, oddFrame>>(HeldFrame)

----------------------------------------------------------------------------
(* The component from mount to unmount: the mount effect (lines 494-543),   *)
(* startCamera, the loadeddata handler, the camera-switch effect, the frame *)
(* loop and the effect cleanup, each await a step of its own.               *)

MaxLifeTicks == 3
MaxSwitches == 1

LifeFrames == {Hands(<<>>), Hands(<<OpenPose>>)}
LifeDeltas == {16}

\* Runs of the mount effect on one mounted instance: one, or React's
\* development double run (effect, cleanup, effect), whose cleanup finds no
\* frame requested, no renderer and no stream.
EffectRuns == {1, 2}

Captured(cap) == IF cap THEN "true" ELSE "false"

LifeInit ==
    /\ landmarks = <<>>
    /\ result = NoResult
    /\ clock = StartClock
    /\ ticks = 0
    /\ isHandPresent = FALSE
    /\ gesture = NONE
    /\ gestureStrength = 0
    /\ handPosition = Zero3
    /\ doublePalmTimer = 0
    /\ time = 0
    /\ lastTime = StartClock
    /\ positions = <<>>
    /\ velocities = <<>>
    /\ homePositions = <<>>
    /\ colors = <<>>
    /\ last = NoTick
    /\ steady = FALSE
    /\ mounted = TRUE
    /\ domRefs = TRUE
    /\ mediaPipe \in EffectRuns
    /\ landmarker = FALSE
    /\ gum = NoCalls
    /\ onloadeddata = "null"
    /\ streamLoading = FALSE
    /\ enumerating = NoCalls
    /\ hasEnumeratedDevices = FALSE
    /\ isLoading = TRUE
    /\ isStreamReady = FALSE
    /\ renderer = FALSE
    /\ rafPending = 0
    /\ requestRefLive = FALSE
    /\ oddFrame = FALSE

\* Lines 431-452, startCamera up to its await, called from a closure whose
\* isLoading is cap: nothing without the video element; else the tracks of a
\* stream already attached are stopped, which ends its loading, and
\* getUserMedia is awaited.
StartCamera(cap) ==
    IF domRefs
      THEN gum' = [gum EXCEPT ![cap] = @ + 1] /\ streamLoading' = FALSE
      ELSE UNCHANGED <<gum, streamLoading>>

\* Lines 496-510: the landmarker arrives and setupMediaPipe calls the
\* startCamera of the first render, where isLoading is true.
MediaPipeLoaded ==
    /\ mediaPipe > 0
    /\ mediaPipe' = mediaPipe - 1
    /\ landmarker' = TRUE
    /\ StartCamera(TRUE)
    /\ UNCHANGED <<landmarks, result, sceneVars, steady, mounted, domRefs, onloadeddata,
                   enumerating, hasEnumeratedDevices, isLoading, isStreamReady,
                   renderer, rafPending, requestRefLive, oddFrame>>

\* Lines 511-514: loading the landmarker fails.
MediaPipeFails ==
    /\ mediaPipe > 0
    /\ mediaPipe' = mediaPipe - 1
    /\ UNCHANGED <<landmarks, result, sceneVars, steady, mounted, domRefs, landmarker,
                   gum, onloadeddata, streamLoading, enumerating, hasEnumeratedDevices,
                   isLoading, isStreamReady, renderer, rafPending, requestRefLive,
                   oddFrame>>

\* Camera switches under way: startCamera calls of the camera-switch effect
\* whose stream has not finished loading.
SwitchesInFlight ==
    gum[FALSE] + enumerating[FALSE]
        + (IF streamLoading /\ onloadeddata = "false" THEN 1 ELSE 0)

\* Lines 487-492: selectedCameraId changes in a render whose isLoading is false.
SelectCamera ==
    /\ mounted
    /\ ~isLoading
    /\ SwitchesInFlight < MaxSwitches
    /\ StartCamera(FALSE)
    /\ UNCHANGED <<landmarks, result, sceneVars, steady, mounted, domRefs, mediaPipe,
                   landmarker, onloadeddata, enumerating, hasEnumeratedDevices,
                   isLoading, isStreamReady, renderer, rafPending, requestRefLive,
                   oddFrame>>

\* Lines 450-454: getUserMedia resolves; the stream is attached and the
\* handler installed, or, the video element gone, line 451 throws into the catch.
GetUserMediaResolves(cap) ==
    /\ gum[cap] > 0
    /\ gum' = [gum EXCEPT ![cap] = @ - 1]
    /\ IF domRefs
         THEN onloadeddata' = Captured(cap) /\ streamLoading' = TRUE
         ELSE UNCHANGED <<onloadeddata, streamLoading>>
    /\ UNCHANGED <<landmarks, result, sceneVars, steady, mounted, domRefs, mediaPipe,
                   landmarker, enumerating, hasEnumeratedDevices, isLoading,
                   isStreamReady, renderer, rafPending, requestRefLive, oddFrame>>

\* Lines 480-483: getUserMedia rejects.
GetUserMediaRejects(cap) ==
    /\ gum[cap] > 0
    /\ gum' = [gum EXCEPT ![cap] = @ - 1]
    /\ UNCHANGED <<landmarks, result, sceneVars, steady, mounted, domRefs, mediaPipe,
                   landmarker, onloadeddata, streamLoading, enumerating,
                   hasEnumeratedDevices, isLoading, isStreamReady, renderer,
                   rafPending, requestRefLive, oddFrame>>

\* Lines 338-429, initThree: nothing without the container or with a
\* renderer; else the renderer is created and the four buffers are seeded.
InitThree(seed) ==
    IF ~domRefs \/ renderer
      THEN [ren |-> renderer, pos |-> positions, vel |-> velocities,
            home |-> homePositions, col |-> colors]
      ELSE [ren |-> TRUE,
            pos |-> [i \in Particles |-> Pick(HomeTable, seed + i - 1)],
            vel |-> [i \in Particles |-> Zero3],
            home |-> [i \in Particles |-> Pick(HomeTable, seed + i - 1)],
            col |-> [i \in Particles |-> MixedColor(Pick(AlphaTable, seed + i - 1))]]

\* Lines 474-478, the end of the loadeddata handler of a closure whose
\* isLoading is cap: when it is true, setIsLoading(false), initThree() and
\* predict(), which runs one tick and requests the next frame.
HandlerTail(cap) ==
    IF cap
      THEN /\ ticks < MaxLifeTicks
           /\ ticks' = ticks + 1
           /\ isLoading' = FALSE
           /\ \E seed \in Seeds, frame \in LifeFrames, delta \in LifeDeltas :
                 LET three == InitThree(seed)
                 IN  /\ renderer' = three.ren
                     /\ PredictOn(three.ren, three.pos, three.vel, three.home,
                                  three.col, frame, delta, 0)
           /\ rafPending' = rafPending + 1
           /\ requestRefLive' = TRUE
           /\ oddFrame' = ~oddFrame
      ELSE UNCHANGED <<landmarks, result, sceneVars, isLoading, renderer, rafPending,
                       requestRefLive, oddFrame>>

\* Lines 454-472: the video fires loadeddata and the installed handler runs,
\* up to its await of enumerateDevices, or to its end when the devices are known.
LoadedData ==
    /\ streamLoading
    /\ onloadeddata # "null"
    /\ streamLoading' = FALSE
    /\ isStreamReady' = TRUE
    /\ IF hasEnumeratedDevices
         THEN HandlerTail(onloadeddata = "true") /\ UNCHANGED enumerating
         ELSE /\ enumerating' = [enumerating EXCEPT ![onloadeddata = "true"] = @ + 1]
              /\ UNCHANGED <<landmarks, result, sceneVars, isLoading, renderer,
                             rafPending, requestRefLive, oddFrame>>
    /\ UNCHANGED <<steady, mounted, domRefs, mediaPipe, landmarker, gum, onloadeddata,
                   hasEnumeratedDevices>>

\* Lines 460-478: enumerateDevices settles (ok: it resolved) and the handler
\* that awaited it runs to its end.
DevicesEnumerated(cap, ok) ==
    /\ enumerating[cap] > 0
    /\ enumerating' = [enumerating EXCEPT ![cap] = @ - 1]
    /\ hasEnumeratedDevices' = (hasEnumeratedDevices \/ ok)
    /\ HandlerTail(cap)
    /\ UNCHANGED <<steady, mounted, domRefs, mediaPipe, landmarker, gum, onloadeddata,
                   streamLoading, isStreamReady>>

\* A requested animation frame runs predict.
LifeFrame ==
    /\ ticks < MaxLifeTicks
    /\ ticks' = ticks + 1
    /\ \E frame \in LifeFrames, delta \in LifeDeltas : RunFrame(frame, delta, 0)
    /\ UNCHANGED steady

\* Lines 530-542, the cleanup of the mount effect at unmount: the frame
\* requestRef names is cancelled, the renderer disposed of and forgotten, and
\* the tracks of the stream stopped where videoRef still holds the element
\* (refs: React has not yet cleared the refs when the cleanup runs).
Unmount ==
    /\ mounted
    /\ mounted' = FALSE
    /\ rafPending' = IF requestRefLive THEN rafPending - 1 ELSE rafPending
    /\ requestRefLive' = FALSE
    /\ renderer' = FALSE
    /\ \E refs \in BOOLEAN :
          streamLoading' = IF refs /\ domRefs THEN FALSE ELSE streamLoading
    /\ domRefs' = FALSE
    /\ UNCHANGED <<landmarks, result, sceneVars, steady, mediaPipe, landmarker, gum,
                   onloadeddata, enumerating, hasEnumeratedDevices, isLoading,
                   isStreamReady, oddFrame>>

LifeNext ==
    \/ MediaPipeLoaded
    \/ MediaPipeFails
    \/ SelectCamera
    \/ \E cap \in BOOLEAN : GetUserMediaResolves(cap)
    \/ \E cap \in BOOLEAN : GetUserMediaRejects(cap)
    \/ LoadedData
    \/ \E cap \in BOOLEAN, ok \in BOOLEAN : DevicesEnumerated(cap, ok)
    \/ LifeFrame
    \/ Unmount

SpecLife == LifeInit /\ [][LifeNext]_vars

----------------------------------------------------------------------------
(* The classifier alone: a pose is drawn and detectGesture is applied to it. *)

GestureInit ==
    /\ landmarks \in GesturePoses
    /\ result = NoResult
    /\ SceneInit(0)
    /\ LoopRunning

Classify ==
    /\ result = NoResult
    /\ result' = detectGesture(landmarks)
    /\ UNCHANGED <<landmarks, sceneVars, steady, lifeVars>>

GestureNext == Classify

SpecGesture == GestureInit /\ [][GestureNext]_vars

----------------------------------------------------------------------------
(* Claims about the classifier, checked under SpecGesture. *)

\* The squared thumb-tip to index-tip distance of the pose under classification.
TipGapSq ==
    Sq(landmarks[5][1] - landmarks[9][1]) + Sq(landmarks[5][2] - landmarks[9][2])
        + Sq(landmarks[5][3] - landmarks[9][3])

Classified == result # NoResult
FullPose == Len(landmarks) = 21

\* The digits of the pose that are extended: tip farther from the wrist than
\* the proximal joint (MCP for the thumb, PIP for the others).
Farther(tip, prox) ==
    Sq(landmarks[tip + 1][1] - landmarks[1][1]) + Sq(landmarks[tip + 1][2] - landmarks[1][2])
        + Sq(landmarks[tip + 1][3] - landmarks[1][3])
    > Sq(landmarks[prox + 1][1] - landmarks[1][1]) + Sq(landmarks[prox + 1][2] - landmarks[1][2])
        + Sq(landmarks[prox + 1][3] - landmarks[1][3])

Extended ==
    {d \in {"thumb", "index", "middle", "ring", "pinky"} :
        \/ d = "thumb" /\ Farther(4, 2)
        \/ d = "index" /\ Farther(8, 6)
        \/ d = "middle" /\ Farther(12, 10)
        \/ d = "ring" /\ Farther(16, 14)
        \/ d = "pinky" /\ Farther(20, 18)}

\* C1: a full pose whose thumb-tip to index-tip distance is below 0.05 is
\* classified PINCH, whatever the five extension booleans are.
C1_PinchPrecedence ==
    (Classified /\ FullPose /\ TipGapSq < 500 * 500) => result.type = PINCH

\* C1 witness: a pinch with four or more digits extended has been classified PINCH.
C1_Witness ==
    /\ Classified /\ FullPose /\ TipGapSq < 500 * 500
    /\ Cardinality(Extended) >= 4
    /\ result.type = PINCH

\* The category the first-match-wins procedure of the specification gives to a
\* set of extended digits, when there is no pinch.
FirstMatch(E) ==
    IF E = {} THEN CLOSED_FIST
    ELSE IF {"index", "pinky"} \subseteq E /\ E \cap {"middle", "ring"} = {} THEN ROCK_ON
    ELSE IF {"index", "middle"} \subseteq E /\ E \cap {"ring", "pinky"} = {} THEN VICTORY
    ELSE IF E = {"thumb"} THEN THUMBS_UP
    ELSE IF Cardinality(E) >= 4 THEN OPEN_HAND
    ELSE NONE

\* C2: detectGesture is total and is the first-match-wins procedure: (NONE, 0)
\* below 21 landmarks; with no pinch the category FirstMatch gives, with
\* strength 1 unless the category is NONE, which has strength 0; never DOUBLE_PALM.
C2_FirstMatchWins ==
    Classified =>
        /\ result.type \in GestureType \ {DOUBLE_PALM}
        /\ ~FullPose => result = [type |-> NONE, strength |-> 0]
        /\ (FullPose /\ TipGapSq >= 500 * 500) =>
              /\ result.type = FirstMatch(Extended)
              /\ result.strength = IF result.type = NONE THEN 0 ELSE 10000

\* C2 witness: a pose without pinch whose index and pinky alone decide ROCK_ON
\* while the thumb is extended too.
C2_Witness ==
    /\ Classified /\ FullPose /\ TipGapSq >= 500 * 500
    /\ Extended = {"thumb", "index", "pinky"}
    /\ result = [type |-> ROCK_ON, strength |-> 10000]

\* C3 as stated: distance exactly 0.05 is not PINCH; distance 0.0499 is PINCH
\* with strength close to 1 (at least 0.9); a PINCH strength lies in [0, 1].
C3_AsStated ==
    Classified /\ FullPose =>
        /\ TipGapSq = 500 * 500 => result.type # PINCH
        /\ TipGapSq = 499 * 499 => (result.type = PINCH /\ result.strength >= 9000)
        /\ result.type = PINCH => (result.strength >= 0 /\ result.strength <= 10000)

\* C3 amended: distance exactly 0.05 is not PINCH; distance 0.0499 is PINCH
\* with strength 1 - 0.0499 * 20 = 0.002, close to 0; a PINCH strength lies in
\* [0, 1] and is 1 only at distance 0.
C3_PinchBoundary ==
    Classified /\ FullPose =>
        /\ TipGapSq = 500 * 500 => result.type # PINCH
        /\ TipGapSq = 499 * 499 => result = [type |-> PINCH, strength |-> 20]
        /\ result.type = PINCH => (result.strength >= 0 /\ result.strength <= 10000)
        /\ (result.type = PINCH /\ result.strength = 10000) => TipGapSq = 0

\* C3 witness: a pose at distance 0.0499 has been classified.
C3_Witness ==
    Classified /\ FullPose /\ TipGapSq = 499 * 499 /\ result.type = PINCH

----------------------------------------------------------------------------
(* Claims about the double-palm detector, checked under SpecPalm. *)

TwoHandTick == last.kind = "hands" /\ Len(last.hands) = 2

\* Both poses of the last tick are full poses without pinch and with four or
\* five digits extended, no rule before OPEN_HAND matching.
BothOpen ==
    /\ TwoHandTick
    /\ \A k \in {1, 2} : detectGesture(last.hands[k]).type = OPEN_HAND

\* The age, at the last tick, of the timer the tick found.
TimerAge == last.now - last.timerBefore

\* C4: the trigger fires (once) exactly in the ticks with two hands, both
\* OPEN_HAND, the timer set and younger than 1000 ms, and such a tick leaves
\* the timer unset; every other tick fires nothing.
C4_TriggerStep ==
    IF BothOpen /\ last.timerBefore # 0 /\ TimerAge < 1000
      THEN last.trigger = 1 /\ doublePalmTimer = 0
      ELSE last.trigger = 0

\* C4 witness: a tick has fired the trigger.
C4_Witness ==
    BothOpen /\ last.timerBefore # 0 /\ TimerAge < 1000 /\ last.trigger = 1

\* C5: a both-OPEN_HAND tick that finds the timer set and 1000 ms old or
\* older fires nothing and restarts the window at its own timestamp.
C5_StaleRestart ==
    (BothOpen /\ last.timerBefore # 0 /\ TimerAge >= 1000) =>
        (last.trigger = 0 /\ doublePalmTimer = last.now)

\* C6: two consecutive both-OPEN_HAND ticks at t1 < t2, the first finding the
\* timer unset, fire once in all when t2 - t1 < 1000, and otherwise fire
\* nothing and leave the window restarted at t2.
C6_Debounce ==
    [][(BothOpen /\ last.timerBefore = 0 /\ BothOpen') =>
          IF last'.now - last.now < 1000
            THEN last.trigger + last'.trigger = 1
            ELSE last.trigger + last'.trigger = 0 /\ doublePalmTimer' = last'.now]_vars

\* C7: a two-hand tick in which not both hands are OPEN_HAND clears a timer
\* that is set and older than 1000 ms, and leaves the timer alone otherwise.
C7_GracePeriod ==
    (TwoHandTick /\ ~BothOpen) =>
        doublePalmTimer =
            IF last.timerBefore # 0 /\ TimerAge > 1000 THEN 0 ELSE last.timerBefore

----------------------------------------------------------------------------
(* Claims about one tick of the frame loop, checked under Spec. *)

\* C8: a tick whose detection throws runs its particle step with no hand
\* present: no gesture force and no colour update.
C8_ThrowMeansAbsent ==
    last.kind = "throw" => (~last.animPresent /\ colors = last.preColors)

\* C9: a tick whose first pose has fewer than 21 landmarks leaves the
\* classification (NONE, 0).
C9_DegradedIsNone ==
    (last.kind = "hands" /\ Len(last.hands) >= 1 /\ Len(last.hands[1]) < 21) =>
        (gesture = NONE /\ gestureStrength = 0)

\* The tick classified its first pose (it has landmark 9).
ClassifiedTick ==
    last.kind = "hands" /\ Len(last.hands) >= 1 /\ Len(last.hands[1]) >= 10

PinchTick == ticks > 0 /\ last.animPresent /\ last.animGesture = PINCH

\* The gesture the particle step used is the tick's own classification, and
\* the position written is the old one advanced by the velocity written.
ClassifyForceIntegrate ==
    /\ ClassifiedTick => last.animGesture = detectGesture(last.hands[1]).type
    /\ ticks > 0 =>
          \A i \in Particles :
              positions[i] = VAdd(last.prePositions[i], VScale(velocities[i], last.dt, 1000))

SeededHomes ==
    {[i \in Particles |-> Pick(HomeTable, seed + i - 1)] : seed \in Seeds}

\* C11: after any sequence of ticks the four buffers still hold one entry of
\* three components for each particle of the seeded count, and every home
\* position is the one initThree seeded: no tick writes homePositions.
C11_Conservation ==
    /\ \A buf \in {positions, velocities, homePositions, colors} :
          /\ DOMAIN buf = Particles
          /\ \A i \in Particles : Len(buf[i]) = 3
    /\ homePositions \in SeededHomes

\* C11 witness: ticks have moved a particle away from its home, which is
\* still the seeded one.
C11_Witness ==
    /\ ticks = MaxTicks
    /\ homePositions \in SeededHomes
    /\ \E i \in Particles :
          positions[i] # homePositions[i] /\ velocities[i] # Zero3

----------------------------------------------------------------------------
(* Claims about ticks without a hand, checked under SpecIdle. *)

AtRest ==
    \A i \in Particles : positions[i] = homePositions[i] /\ velocities[i] = Zero3

\* C13: a tick that runs its particle step with hand-presence false adds the
\* home force 1.5 * dt * (home - position) to the velocity, damps it by 0.92,
\* advances the position by velocity * dt and changes no colour; such a tick
\* that starts with every particle at its home position at zero velocity
\* ends the same way, for each dt from 0 to 0.1 s.
C13_HandAbsentTick ==
    [][(ticks' = ticks + 1 /\ ~isHandPresent') =>
          /\ colors' = colors
          /\ \A i \in Particles :
                /\ velocities'[i] =
                      VScale(VAdd(velocities[i],
                                  VScale(VSub(homePositions[i], positions[i]),
                                         15 * last'.dt, 10000)),
                             92, 100)
                /\ positions'[i] = VAdd(positions[i], VScale(velocities'[i], last'.dt, 1000))
          /\ AtRest => AtRest']_vars

\* C13 witness: ticks of 0 s and of the capped 0.1 s have run without a hand
\* since construction, and every particle rests at its home with its seeded colour.
C13_Witness ==
    /\ ticks = MaxIdleTicks
    /\ ~isHandPresent /\ ~last.animPresent /\ last.dt = 100
    /\ time = 100
    /\ AtRest
    /\ \E seed \in Seeds :
          colors = [i \in Particles |-> MixedColor(Pick(AlphaTable, seed + i - 1))]

----------------------------------------------------------------------------
(* Claims about the state the frame loop keeps, checked under Spec. *)

\* C14: every component of every particle's position and velocity is a
\* finite number (no tick divides by a zero distance to the hand).
C14_Finite ==
    \A i \in Particles : \A k \in 1..3 :
        positions[i][k] # NaN /\ velocities[i][k] # NaN

\* C15: the stored strength is 0 when the stored category is NONE and 1 when
\* it is any other category but PINCH, and the stored category is never
\* DOUBLE_PALM.
C15_StoredStrength ==
    /\ gesture \in GestureType \ {DOUBLE_PALM}
    /\ gesture = NONE => gestureStrength = 0
    /\ gesture \notin {NONE, PINCH} => gestureStrength = One

----------------------------------------------------------------------------
(* Claim about the double-palm detector under SpecSteady. *)

\* C16: once two hands, both OPEN_HAND, are in every frame, with less than
\* 1000 ms between consecutive frames, the trigger fires in some later frame,
\* whatever the timer was when the hands came.
C16_EventuallyFires ==
    steady ~> (steady /\ last.trigger = 1)

----------------------------------------------------------------------------
(* Claims about the life of the component, checked under SpecLife. *)

\* C12: once the cleanup of the mount effect has run, no frame of predict is
\* requested: none stays requested and none becomes requested.
C12_TeardownStops ==
    ~mounted => rafPending = 0

\* C17: at every moment at most one frame of predict is requested.
C17_SingleLoop ==
    rafPending <= 1

====
